---- MODULE Spec2Model ----
(***************************************************************************)
(* A model of the 2D N-body Solar System simulation                        *)
(* (src/solar_system): the force model of dynamics.py, the two integrators *)
(* of integration.py, the initial-conditions provider of planets.py and    *)
(* the driver run_simulation of run_simulation.py.                         *)
(*                                                                         *)
(* Numbers.  The program computes in IEEE-754 binary floating point: every *)
(* arithmetic operation returns the exact result rounded to the nearest    *)
(* representable value, ties to even.  The model keeps exactly that, with  *)
(* a significand of MantBits bits instead of 53 and an unbounded exponent  *)
(* (no overflow, no underflow).  A number is a pair <<m, e>> that stands   *)
(* for m * 2^e, kept canonical (m odd, or <<0, 0>>), so that equality of   *)
(* pairs is equality of numbers.                                           *)
(***************************************************************************)
EXTENDS Integers, Sequences, FiniteSets, TLC

\* Bits of significand of a floating-point number (53 in the program).
MantBits == 4

(***************************************************************************)
(* The program evaluates an expression once and names its value.  Bind     *)
(* does the same: F is applied to the value of e.                          *)
(***************************************************************************)
Bind(e, F(_)) == CHOOSE r \in { F(x) : x \in {e} } : TRUE

Bind2(e1, e2, F(_, _)) == CHOOSE r \in { F(x[1], x[2]) : x \in {<<e1, e2>>} } : TRUE

RECURSIVE Pow2(_)
Pow2(n) == IF n <= 0 THEN 1 ELSE 2 * Pow2(n - 1)

RECURSIVE BitLen(_)
BitLen(n) == IF n <= 0 THEN 0 ELSE 1 + BitLen(n \div 2)

Abs(n) == IF n < 0 THEN -n ELSE n

Sgn(n) == IF n > 0 THEN 1 ELSE IF n < 0 THEN -1 ELSE 0

RECURSIVE Canon(_, _)
Canon(m, e) ==
    IF m = 0 THEN <<0, 0>>
    ELSE IF m % 2 = 0 THEN Canon(m \div 2, e + 1)
    ELSE <<m, e>>

\* sign * (n + t) * 2^e with 0 <= t < 1 and t > 0 iff sticky, rounded to
\* MantBits significant bits, ties to even.  n >= 0; when sticky, n has more
\* than MantBits bits.
RoundNearestEven(sign, n, e, sticky) ==
    Bind2(n, BitLen(n) - MantBits, LAMBDA v, k :
        IF k <= 0 THEN Canon(sign * v, e)
        ELSE Bind2(v \div Pow2(k), v % Pow2(k), LAMBDA q, r :
                 IF \/ r > Pow2(k - 1)
                    \/ r = Pow2(k - 1) /\ (sticky \/ q % 2 = 1)
                 THEN Canon(sign * (q + 1), e + k)
                 ELSE Canon(sign * q, e + k)))

\* A decimal literal of the source, given as n * 2^e to 16 bits.
Lit(n, e) == RoundNearestEven(Sgn(n), Abs(n), e, FALSE)

Zero == <<0, 0>>

\* Exponent of the leading bit: |a| is in [2^(Top(a)-1), 2^Top(a)).
Top(a) == a[2] + BitLen(Abs(a[1]))

\* x + y.  An operand below a quarter of the last place of the other cannot
\* change the rounded sum; otherwise the sum is formed exactly and rounded.
FAdd(x, y) ==
    Bind2(x, y, LAMBDA a, b :
        IF a[1] = 0 THEN b
        ELSE IF b[1] = 0 THEN a
        ELSE IF a[2] - Top(b) >= MantBits + 2 THEN a
        ELSE IF b[2] - Top(a) >= MantBits + 2 THEN b
        ELSE Bind(IF a[2] < b[2] THEN a[2] ELSE b[2], LAMBDA e :
             Bind(a[1] * Pow2(a[2] - e) + b[1] * Pow2(b[2] - e), LAMBDA n :
                 RoundNearestEven(Sgn(n), Abs(n), e, FALSE))))

FNeg(a) == Bind(a, LAMBDA v : <<-v[1], v[2]>>)

FSub(a, b) == FAdd(a, FNeg(b))

FMul(x, y) ==
    Bind2(x, y, LAMBDA a, b :
        RoundNearestEven(Sgn(a[1]) * Sgn(b[1]), Abs(a[1] * b[1]), a[2] + b[2], FALSE))

\* Extra bits carried by a quotient or a root before it is rounded.
Guard == 2 * MantBits + 2

\* x / y, y # 0.
FDiv(x, y) ==
    Bind2(x, y, LAMBDA a, b :
        IF a[1] = 0 THEN Zero
        ELSE Bind2(Abs(a[1]) * Pow2(Guard), Abs(b[1]), LAMBDA N, D :
                 RoundNearestEven(Sgn(a[1]) * Sgn(b[1]), N \div D,
                                  a[2] - b[2] - Guard, N % D # 0)))

\* The largest r in lo..hi with r * r <= n (lo * lo <= n < (hi+1) * (hi+1)).
RECURSIVE ISqrtIn(_, _, _)
ISqrtIn(n, lo, hi) ==
    IF lo >= hi THEN lo
    ELSE Bind((lo + hi + 1) \div 2, LAMBDA mid :
             IF mid * mid <= n THEN ISqrtIn(n, mid, hi)
             ELSE ISqrtIn(n, lo, mid - 1))

ISqrt(n) == ISqrtIn(n, 0, Pow2((BitLen(n) + 1) \div 2))

\* sqrt(x), x >= 0.
FSqrt(x) ==
    Bind(x, LAMBDA a :
        IF a[1] = 0 THEN Zero
        ELSE Bind(Guard + ((a[2] - Guard) % 2), LAMBDA s :
             Bind(a[1] * Pow2(s), LAMBDA N :
             Bind(ISqrt(N), LAMBDA r :
                 RoundNearestEven(1, r, (a[2] - s) \div 2, r * r # N)))))

\* x < y, exactly.
FLt(x, y) ==
    Bind2(x, y, LAMBDA a, b :
        IF Sgn(a[1]) # Sgn(b[1]) THEN Sgn(a[1]) < Sgn(b[1])
        ELSE IF a[1] = 0 THEN FALSE
        ELSE IF Top(a) # Top(b)
             THEN IF a[1] > 0 THEN Top(a) < Top(b) ELSE Top(a) > Top(b)
        ELSE Bind(IF a[2] < b[2] THEN a[2] ELSE b[2], LAMBDA e :
                 a[1] * Pow2(a[2] - e) < b[1] * Pow2(b[2] - e)))

(***************************************************************************)
(* Vectors: a 2D vector is a pair <<x, y>> of numbers; a (N, 2) array is a *)
(* sequence of N vectors.  numpy's arithmetic on arrays is elementwise.    *)
(***************************************************************************)
Zero2 == <<Zero, Zero>>

VAdd(x, y) == Bind2(x, y, LAMBDA a, b : <<FAdd(a[1], b[1]), FAdd(a[2], b[2])>>)

VSub(x, y) == Bind2(x, y, LAMBDA a, b : <<FSub(a[1], b[1]), FSub(a[2], b[2])>>)

VScale(x, y) == Bind2(x, y, LAMBDA a, c : <<FMul(a[1], c), FMul(a[2], c)>>)

VDiv(x, y) == Bind2(x, y, LAMBDA a, c : <<FDiv(a[1], c), FDiv(a[2], c)>>)

\* An array is a value: its elements are computed when it is built.
Array(f) == f \o <<>>

ArrAdd(X, Y) ==
    Bind2(X, Y, LAMBDA A, B : Array([i \in 1..Len(A) |-> VAdd(A[i], B[i])]))

ArrScale(X, y) ==
    Bind2(X, y, LAMBDA A, c : Array([i \in 1..Len(A) |-> VScale(A[i], c)]))

ArrDiv(X, y) ==
    Bind2(X, y, LAMBDA A, c : Array([i \in 1..Len(A) |-> VDiv(A[i], c)]))

\* np.linalg.norm of a 2D vector: the square root of its dot product with itself.
Norm(x) == Bind(x, LAMBDA d : FSqrt(FAdd(FMul(d[1], d[1]), FMul(d[2], d[2]))))

(***************************************************************************)
(* dynamics.py                                                             *)
(***************************************************************************)
\* G = 6.67430e-11
G == Lit(37573, -49)

\* epsilon = 1e-6
epsilon == Lit(4295, -32)

\* The outcome of gravitational_force: force_vec returned, or an exception
\* raised.
ReturnForce(v) == [raised |-> "none", force_vec |-> v]

RaiseForce(exc) == [raised |-> exc, force_vec |-> <<>>]

\* The outcome of compute_accelerations: acc returned, or an exception raised.
Return(v) == [raised |-> "none", acc |-> v]

Raise(exc) == [raised |-> exc, acc |-> <<>>]

\* The force with the threshold itself refused.
gravitational_force_closed(r1, r2, m1, m2) ==
    Bind(VSub(r2, r1), LAMBDA diff :
    Bind(Norm(diff), LAMBDA dist :
        IF ~FLt(epsilon, dist) THEN RaiseForce("ValueError")
        ELSE Bind(FDiv(FMul(FMul(G, m1), m2), FMul(dist, dist)), LAMBDA force_mag :
                 ReturnForce(VDiv(VScale(diff, force_mag), dist)))))

\* The force falling off with the distance instead of its square.
gravitational_force_inverse(r1, r2, m1, m2) ==
    Bind(VSub(r2, r1), LAMBDA diff :
    Bind(Norm(diff), LAMBDA dist :
        IF FLt(dist, epsilon) THEN RaiseForce("ValueError")
        ELSE Bind(FDiv(FMul(FMul(G, m1), m2), dist), LAMBDA force_mag :
                 ReturnForce(VDiv(VScale(diff, force_mag), dist)))))

\* The force on body 1 due to body 2, or the ValueError of a distance below
\* epsilon.
gravitational_force(r1, r2, m1, m2) ==
    Bind(VSub(r2, r1), LAMBDA diff :
    Bind(Norm(diff), LAMBDA dist :
        IF FLt(dist, epsilon) THEN RaiseForce("ValueError")
        ELSE Bind(FDiv(FMul(FMul(G, m1), m2), FMul(dist, dist)), LAMBDA force_mag :
                 ReturnForce(VDiv(VScale(diff, force_mag), dist)))))

\* The inner loop without the test that skips j = i.
RECURSIVE AccumulateForcesWithSelf(_, _, _, _, _)
AccumulateForcesWithSelf(positions, masses, i, j, acc) ==
    IF j > Len(positions) THEN Return(acc)
    ELSE Bind(gravitational_force(positions[i], positions[j], masses[i], masses[j]),
              LAMBDA f :
                 IF f.raised # "none" THEN Raise(f.raised)
                 ELSE Bind(VAdd(acc, VDiv(f.force_vec, masses[i])), LAMBDA sum :
                          AccumulateForcesWithSelf(positions, masses, i, j + 1, sum)))

\* The inner loop with every pair's force taken from the side of its
\* lower-numbered body, whichever body it is added to.
RECURSIVE AccumulateForcesFromFirst(_, _, _, _, _)
AccumulateForcesFromFirst(positions, masses, i, j, acc) ==
    IF j > Len(positions) THEN Return(acc)
    ELSE IF i = j THEN AccumulateForcesFromFirst(positions, masses, i, j + 1, acc)
    ELSE Bind(IF i < j
              THEN gravitational_force(positions[i], positions[j], masses[i], masses[j])
              ELSE gravitational_force(positions[j], positions[i], masses[j], masses[i]),
              LAMBDA f :
                 IF f.raised # "none" THEN Raise(f.raised)
                 ELSE Bind(VAdd(acc, VDiv(f.force_vec, masses[i])), LAMBDA sum :
                          AccumulateForcesFromFirst(positions, masses, i, j + 1, sum)))

\* The inner loop of compute_accelerations for body i, from j on: acc is
\* acc[i] so far.  The first force that raises ends the loop.
RECURSIVE AccumulateForces(_, _, _, _, _)
AccumulateForces(positions, masses, i, j, acc) ==
    IF j > Len(positions) THEN Return(acc)
    ELSE IF i = j THEN AccumulateForces(positions, masses, i, j + 1, acc)
    ELSE Bind(gravitational_force(positions[i], positions[j], masses[i], masses[j]),
              LAMBDA f :
                 IF f.raised # "none" THEN Raise(f.raised)
                 ELSE Bind(VAdd(acc, VDiv(f.force_vec, masses[i])), LAMBDA sum :
                          AccumulateForces(positions, masses, i, j + 1, sum)))

\* The net acceleration of every body.  The parameter Garg is the function's
\* G argument: the body never reads it, and gravitational_force uses the
\* module's G.
compute_accelerations(positions, masses, Garg) ==
    Bind2(positions, masses, LAMBDA p, m :
    Bind(Array([i \in 1..Len(p) |-> AccumulateForces(p, m, i, 1, Zero2)]),
         LAMBDA rows :
            IF \E i \in 1..Len(p) : rows[i].raised # "none"
            THEN Raise("ValueError")
            ELSE Return(Array([i \in 1..Len(p) |-> rows[i].acc]))))

(***************************************************************************)
(* integration.py.  A step returns the new positions and velocities, or    *)
(* raises what a force evaluation raised; evals counts the calls of        *)
(* compute_accelerations it made.                                          *)
(***************************************************************************)
StepReturn(p, v, n) ==
    [raised |-> "none", positions |-> p, velocities |-> v, evals |-> n]

StepRaise(exc, n) ==
    [raised |-> exc, positions |-> <<>>, velocities |-> <<>>, evals |-> n]

Half == <<1, -1>>

Two == <<1, 1>>

Six == <<3, 1>>

\* The explicit scheme: the position advances with the input velocity.
explicit_euler_step(positions, velocities, masses, dt, Garg) ==
    Bind(compute_accelerations(positions, masses, Garg), LAMBDA acc :
        IF acc.raised # "none" THEN StepRaise(acc.raised, 1)
        ELSE StepReturn(ArrAdd(positions, ArrScale(velocities, dt)),
                        ArrAdd(velocities, ArrScale(acc.acc, dt)), 1))

euler_step(positions, velocities, masses, dt, Garg) ==
    Bind(compute_accelerations(positions, masses, Garg), LAMBDA acc :
        IF acc.raised # "none" THEN StepRaise(acc.raised, 1)
        ELSE Bind(ArrAdd(velocities, ArrScale(acc.acc, dt)), LAMBDA new_velocities :
             Bind(ArrAdd(positions, ArrScale(new_velocities, dt)), LAMBDA new_positions :
                 StepReturn(new_positions, new_velocities, 1))))

\* The weighted sum (k1 + 2*k2 + 2*k3 + k4) / 6 of rk4_step, left to right.
Rk4Combine(k1, k2, k3, k4) ==
    ArrDiv(ArrAdd(ArrAdd(ArrAdd(k1, ArrScale(k2, Two)), ArrScale(k3, Two)), k4),
           Six)

rk4_step(positions, velocities, masses, dt, Garg) ==
    \* k1
    Bind(compute_accelerations(positions, masses, Garg), LAMBDA a1 :
    IF a1.raised # "none" THEN StepRaise(a1.raised, 1) ELSE
    Bind(ArrScale(a1.acc, dt), LAMBDA k1v :
    Bind(ArrScale(velocities, dt), LAMBDA k1x :
    \* k2
    Bind(compute_accelerations(ArrAdd(positions, ArrScale(k1x, Half)), masses, Garg),
         LAMBDA a2 :
    IF a2.raised # "none" THEN StepRaise(a2.raised, 2) ELSE
    Bind(ArrScale(a2.acc, dt), LAMBDA k2v :
    Bind(ArrScale(ArrAdd(velocities, ArrScale(k1v, Half)), dt), LAMBDA k2x :
    \* k3
    Bind(compute_accelerations(ArrAdd(positions, ArrScale(k2x, Half)), masses, Garg),
         LAMBDA a3 :
    IF a3.raised # "none" THEN StepRaise(a3.raised, 3) ELSE
    Bind(ArrScale(a3.acc, dt), LAMBDA k3v :
    Bind(ArrScale(ArrAdd(velocities, ArrScale(k2v, Half)), dt), LAMBDA k3x :
    \* k4
    Bind(compute_accelerations(ArrAdd(positions, k3x), masses, Garg), LAMBDA a4 :
    IF a4.raised # "none" THEN StepRaise(a4.raised, 4) ELSE
    Bind(ArrScale(a4.acc, dt), LAMBDA k4v :
    Bind(ArrScale(ArrAdd(velocities, k3v), dt), LAMBDA k4x :
        StepReturn(ArrAdd(positions, Rk4Combine(k1x, k2x, k3x, k4x)),
                   ArrAdd(velocities, Rk4Combine(k1v, k2v, k3v, k4v)), 4)))))))))))))

(***************************************************************************)
(* planets.py                                                              *)
(***************************************************************************)
\* mass [kg], orbital radius r [m], orbital speed v [m/s], as in the source:
\* 1.989e30; 3.285e23, 5.79e10, 47400; 4.867e24, 1.082e11, 35000; ...
PLANETS == <<
    [name |-> "Sun", mass |-> Lit(25707, 86), r |-> Zero, v |-> Zero],
    [name |-> "Mercury", mass |-> Lit(1113, 68), r |-> Lit(27609, 21), v |-> Lit(47400, 0)],
    [name |-> "Venus", mass |-> Lit(8245, 69), r |-> Lit(25797, 22), v |-> Lit(35000, 0)],
    [name |-> "Earth", mass |-> Lit(10117, 69), r |-> Lit(35667, 22), v |-> Lit(29780, 0)],
    [name |-> "Mars", mass |-> Lit(2165, 68), r |-> Lit(849, 28), v |-> Lit(24100, 0)],
    [name |-> "Jupiter", mass |-> Lit(785, 81), r |-> Lit(23201, 25), v |-> Lit(13070, 0)],
    [name |-> "Saturn", mass |-> Lit(60171, 73), r |-> Lit(42707, 25), v |-> Lit(9680, 0)],
    [name |-> "Uranus", mass |-> Lit(36765, 71), r |-> Lit(42871, 26), v |-> Lit(6800, 0)],
    [name |-> "Neptune", mass |-> Lit(5421, 74), r |-> Lit(16775, 28), v |-> Lit(5430, 0)] >>

Min(a, b) == IF a < b THEN a ELSE b

\* The first min(n, len(PLANETS)) bodies, on the x-axis with velocity along +y.
get_planets(n) ==
    Bind(SubSeq(PLANETS, 1, Min(n, Len(PLANETS))), LAMBDA subset :
        [names      |-> Array([i \in 1..Len(subset) |-> subset[i].name]),
         masses     |-> Array([i \in 1..Len(subset) |-> subset[i].mass]),
         positions  |-> Array([i \in 1..Len(subset) |-> <<subset[i].r, Zero>>]),
         velocities |-> Array([i \in 1..Len(subset) |-> <<Zero, subset[i].v>>])])

(***************************************************************************)
(* run_simulation.py: the driver, one action per numbered section of       *)
(* run_simulation.  A numpy buffer of shape (steps + 1, 2) is a sequence   *)
(* of steps + 1 vectors: index k of the source is index k + 1 here.        *)
(***************************************************************************)
VARIABLES
    nplanets, steps, dt, method, include_cog,  \* the arguments of the run
    pc,              \* the section run_simulation is about to execute
    names, masses, positions, velocities,
    trajectories, cog_positions, step_func,
    step,            \* the loop variable: the next index to record
    raised,          \* the exception that left run_simulation, if any
    plots,           \* the calls made to plot_utils, in order
    calls, evals,    \* integrator calls and force evaluations made so far
    fn, args, ret    \* a direct call of a function of the library

runVars == <<nplanets, steps, dt, method, include_cog, pc, names, masses,
             positions, velocities, trajectories, cog_positions, step_func,
             step, raised, plots, calls, evals>>

callVars == <<fn, args, ret>>

vars == <<nplanets, steps, dt, method, include_cog, pc, names, masses,
          positions, velocities, trajectories, cog_positions, step_func,
          step, raised, plots, calls, evals, fn, args, ret>>

\* Largest number of steps of a modelled run.
MaxSteps == 2

\* Largest number of bodies of a modelled run that reaches the time loop.
MaxBodies == 5

None == <<>>

NoException == [type |-> "none", message |-> ""]

\* Requested body counts: up to MaxBodies, and one more than the catalog holds.
BodyCounts == (1..MaxBodies) \cup {Len(PLANETS) + 1}

\* Time steps [s]: 3600, 86400 (the default), 10485760.
TimeSteps == {Lit(3600, 0), Lit(675, 7), Lit(5, 21)}

Methods == {"euler", "rk4", "verlet"}

\* np.zeros((n, 2))
Zeros(n) == [k \in 1..n |-> Zero2]

RECURSIVE SumRows(_, _)
SumRows(A, n) == IF n = 0 THEN Zero2 ELSE VAdd(SumRows(A, n - 1), A[n])

RECURSIVE SumAll(_, _)
SumAll(a, n) == IF n = 0 THEN Zero ELSE FAdd(SumAll(a, n - 1), a[n])

\* The mean of the positions, every body weighing the same.
CenterUnweighted(m, p) == VDiv(SumRows(p, Len(p)), Lit(Len(p), 0))

\* np.sum(masses[:, None] * positions, axis=0) / np.sum(masses)
CenterOfGravity(m, p) ==
    Bind(Array([i \in 1..Len(p) |-> VScale(p[i], m[i])]), LAMBDA weighted :
        VDiv(SumRows(weighted, Len(p)), SumAll(m, Len(m))))

\* The call step_func(positions, velocities, masses, dt, G).
StepFunc(f, p, v, m, h) ==
    IF f = "euler_step" THEN euler_step(p, v, m, h, G)
    ELSE rk4_step(p, v, m, h, G)

Init ==
    /\ nplanets \in BodyCounts
    /\ steps \in 0..MaxSteps
    /\ dt \in TimeSteps
    /\ method \in Methods
    /\ include_cog \in BOOLEAN
    /\ pc = "initialize"
    /\ names = <<>> /\ masses = <<>> /\ positions = <<>> /\ velocities = <<>>
    /\ trajectories = <<>> /\ cog_positions = None /\ step_func = "none"
    /\ step = 0
    /\ raised = NoException
    /\ plots = <<>>
    /\ calls = 0 /\ evals = 0
    /\ fn = "none" /\ args = <<>> /\ ret = <<>>

\* 1. Initialize system
InitializeSystem ==
    /\ pc = "initialize"
    /\ \E p \in {get_planets(nplanets)} :
          /\ names' = p.names
          /\ masses' = p.masses
          /\ positions' = p.positions
          /\ velocities' = p.velocities
    /\ pc' = "storage"
    /\ UNCHANGED <<nplanets, steps, dt, method, include_cog, trajectories,
                   cog_positions, step_func, step, raised, plots, calls, evals>>
    /\ UNCHANGED callVars

\* 2. Prepare storage: nplanets buffers, and positions[i] recorded for i in
\* range(nplanets); positions[i] raises IndexError past its last row.
PrepareStorage ==
    /\ pc = "storage"
    /\ trajectories' =
           [i \in 1..nplanets |->
               [k \in 1..(steps + 1) |->
                   IF k = 1 /\ i <= Len(positions) THEN positions[i] ELSE Zero2]]
    /\ IF nplanets > Len(positions)
       THEN /\ pc' = "raised"
            /\ raised' = [type |-> "IndexError", message |-> "index out of bounds"]
            /\ UNCHANGED cog_positions
       ELSE /\ pc' = "select"
            /\ cog_positions' =
                   IF include_cog
                   THEN [k \in 1..(steps + 1) |->
                            IF k = 1 THEN CenterOfGravity(masses, positions)
                            ELSE Zero2]
                   ELSE None
            /\ UNCHANGED raised
    /\ UNCHANGED <<nplanets, steps, dt, method, include_cog, names, masses,
                   positions, velocities, step_func, step, plots, calls, evals>>
    /\ UNCHANGED callVars

\* 3. Select integrator
SelectIntegrator ==
    /\ pc = "select"
    /\ IF method = "euler"
       THEN step_func' = "euler_step" /\ pc' = "loop" /\ step' = 1
                                      /\ UNCHANGED raised
       ELSE IF method = "rk4"
       THEN step_func' = "rk4_step" /\ pc' = "loop" /\ step' = 1
                                    /\ UNCHANGED raised
       ELSE /\ pc' = "raised"
            /\ raised' = [type |-> "ValueError",
                          message |-> "Unknown method. Choose 'rk4' or 'euler'."]
            /\ UNCHANGED <<step_func, step>>
    /\ UNCHANGED <<nplanets, steps, dt, method, include_cog, names, masses,
                   positions, velocities, trajectories, cog_positions, plots,
                   calls, evals>>
    /\ UNCHANGED callVars

\* The body of the loop for the outcome r of the integrator call: an exception
\* leaves run_simulation; a result is recorded at index step.
RecordStep(r) ==
    /\ calls' = calls + 1
    /\ evals' = evals + r.evals
    /\ IF r.raised # "none"
       THEN /\ pc' = "raised"
            /\ raised' = [type |-> r.raised, message |-> "Distance too small"]
            /\ UNCHANGED <<positions, velocities, trajectories, cog_positions,
                           step>>
       ELSE /\ positions' = r.positions
            /\ velocities' = r.velocities
            /\ trajectories' =
                   [i \in 1..nplanets |->
                       [trajectories[i] EXCEPT ![step + 1] = r.positions[i]]]
            /\ cog_positions' =
                   IF include_cog
                   THEN [cog_positions EXCEPT
                            ![step + 1] = CenterOfGravity(masses, r.positions)]
                   ELSE cog_positions
            /\ step' = step + 1
            /\ UNCHANGED <<pc, raised>>
    /\ UNCHANGED <<nplanets, steps, dt, method, include_cog, names, masses,
                   step_func, plots>>
    /\ UNCHANGED callVars

\* The loop with a first step's velocities fed to every step.
TimeLoopStepStale ==
    /\ pc = "loop"
    /\ step <= steps
    /\ \E r \in {StepFunc(step_func, positions,
                          get_planets(nplanets).velocities, masses, dt)} :
          RecordStep(r)

\* The loop with a failed step skipped instead of ending the run.
TimeLoopStepResume ==
    /\ pc = "loop"
    /\ step <= steps
    /\ \E r \in {StepFunc(step_func, positions, velocities, masses, dt)} :
          IF r.raised # "none"
          THEN /\ calls' = calls + 1
               /\ evals' = evals + r.evals
               /\ step' = step + 1
               /\ UNCHANGED <<nplanets, steps, dt, method, include_cog, pc, names,
                              masses, positions, velocities, trajectories,
                              cog_positions, step_func, raised, plots>>
               /\ UNCHANGED callVars
          ELSE RecordStep(r)

\* 4. Main time loop: one iteration.
TimeLoopStep ==
    /\ pc = "loop"
    /\ step <= steps
    /\ \E r \in {StepFunc(step_func, positions, velocities, masses, dt)} :
          RecordStep(r)

\* 5. Plot results, after the last iteration.
PlotResults ==
    /\ pc = "loop"
    /\ step > steps
    /\ plots' = << [fn |-> "plot_trajectories", trajectories |-> trajectories,
                    labels |-> names],
                   [fn |-> "plot_timeseries",
                    time |-> [k \in 1..(steps + 1) |-> FMul(Lit(k - 1, 0), dt)],
                    trajectories |-> trajectories, labels |-> names,
                    cog_positions |-> IF include_cog THEN cog_positions ELSE None] >>
    /\ pc' = "done"
    /\ UNCHANGED <<nplanets, steps, dt, method, include_cog, names, masses,
                   positions, velocities, trajectories, cog_positions, step_func,
                   step, raised, calls, evals>>
    /\ UNCHANGED callVars

Next ==
    \/ InitializeSystem
    \/ PrepareStorage
    \/ SelectIntegrator
    \/ TimeLoopStep
    \/ PlotResults

Spec == Init /\ [][Next]_vars

(***************************************************************************)
(* Direct calls of the library, as the tests of src/tests/test_all.py make *)
(* them.  The functions are pure: a call reads its arguments only.  fn,    *)
(* args and ret hold the call made and what it returned or raised.         *)
(***************************************************************************)
\* Coordinates of the positions handed to gravitational_force: around the
\* threshold epsilon and around unit separation.
ForceCoords ==
    {Zero, FMul(epsilon, Half), epsilon, Lit(1, 0), Lit(-2, 0), Lit(3, 0)}

ForceMasses == {Lit(1, 0), Lit(2, 0), Lit(3, 0)}

Body(m, p, v) == [mass |-> m, position |-> p, velocity |-> v]

System(bodies) ==
    [masses     |-> Array([i \in 1..Len(bodies) |-> bodies[i].mass]),
     positions  |-> Array([i \in 1..Len(bodies) |-> bodies[i].position]),
     velocities |-> Array([i \in 1..Len(bodies) |-> bodies[i].velocity])]

\* A lone body of unit mass.
LoneBodies ==
    { System(<<Body(Lit(1, 0), p, v)>>) :
        p \in {Zero2, <<Lit(1, 0), Lit(3, 0)>>},
        v \in {Zero2, <<Lit(5, 0), Zero>>, <<Zero, Lit(7, 0)>>,
               <<Lit(3, 0), Lit(-2, 0)>>} }

\* The first bodies of the catalog.
CatalogSystems ==
    { [masses |-> get_planets(n).masses, positions |-> get_planets(n).positions,
       velocities |-> get_planets(n).velocities] : n \in 1..3 }

\* Two bodies at rest: two apart and heavy enough to move each other within
\* a second, and at the same place.
PairSystems ==
    { System(<<Body(Lit(1, 37), Zero2, Zero2),
               Body(Lit(3, 37), <<Lit(2, 0), Zero>>, Zero2)>>),
      System(<<Body(Lit(1, 0), <<Lit(1, 0), Lit(1, 0)>>, Zero2),
               Body(Lit(1, 0), <<Lit(1, 0), Lit(1, 0)>>, Zero2)>>) }

\* Positions of the bodies of an equal-mass pair: on and off the axes, and
\* within epsilon of the origin.
PairPositions ==
    {Zero2, <<Lit(1, 0), Zero>>, <<Lit(-2, 0), Lit(3, 0)>>,
     <<epsilon, Zero>>, <<FMul(epsilon, Half), Zero>>}

\* Two bodies of the same mass at rest.
EqualPairs ==
    { System(<<Body(m, p1, Zero2), Body(m, p2, Zero2)>>) :
        m \in {Lit(1, 0), Lit(3, 0), Lit(1, 37)},
        p1 \in PairPositions, p2 \in PairPositions }

Systems == LoneBodies \cup CatalogSystems \cup PairSystems \cup EqualPairs

\* Time steps [s] of a direct call: 1, 3600, 10485760.
CallSteps == {Lit(1, 0), Lit(3600, 0), Lit(5, 21)}

\* Values given for the G argument: the constant, and twice the constant.
GArgs == {G, FMul(Two, G)}

CallInit ==
    /\ nplanets = 1 /\ steps = 0 /\ dt = Lit(3600, 0) /\ method = "euler"
    /\ include_cog = FALSE
    /\ pc = "library"
    /\ names = <<>> /\ masses = <<>> /\ positions = <<>> /\ velocities = <<>>
    /\ trajectories = <<>> /\ cog_positions = None /\ step_func = "none"
    /\ step = 0
    /\ raised = NoException
    /\ plots = <<>>
    /\ calls = 0 /\ evals = 0
    /\ fn = "none" /\ args = <<>> /\ ret = <<>>

CallGravitationalForce ==
    /\ fn = "none"
    /\ \E r1 \in ForceCoords \X ForceCoords, r2 \in ForceCoords \X ForceCoords,
          m1 \in ForceMasses, m2 \in ForceMasses :
          /\ fn' = "gravitational_force"
          /\ args' = [r1 |-> r1, r2 |-> r2, m1 |-> m1, m2 |-> m2]
          /\ ret' = gravitational_force(r1, r2, m1, m2)
    /\ UNCHANGED runVars

CallComputeAccelerations ==
    /\ fn = "none"
    /\ \E s \in Systems, g \in GArgs :
          /\ fn' = "compute_accelerations"
          /\ args' = [positions |-> s.positions, masses |-> s.masses, G |-> g]
          /\ ret' = compute_accelerations(s.positions, s.masses, g)
    /\ UNCHANGED runVars

CallEulerStep ==
    /\ fn = "none"
    /\ \E s \in Systems, h \in CallSteps, g \in GArgs :
          /\ fn' = "euler_step"
          /\ args' = [positions |-> s.positions, velocities |-> s.velocities,
                      masses |-> s.masses, dt |-> h, G |-> g]
          /\ ret' = euler_step(s.positions, s.velocities, s.masses, h, g)
    /\ UNCHANGED runVars

CallRk4Step ==
    /\ fn = "none"
    /\ \E s \in Systems, h \in CallSteps, g \in GArgs :
          /\ fn' = "rk4_step"
          /\ args' = [positions |-> s.positions, velocities |-> s.velocities,
                      masses |-> s.masses, dt |-> h, G |-> g]
          /\ ret' = rk4_step(s.positions, s.velocities, s.masses, h, g)
    /\ UNCHANGED runVars

CallNext ==
    \/ CallGravitationalForce
    \/ CallComputeAccelerations
    \/ CallEulerStep
    \/ CallRk4Step

CallSpec == CallInit /\ [][CallNext]_vars

(***************************************************************************)
(* Properties of the library calls (CallSpec).                             *)
(***************************************************************************)
FAbs(a) == Bind(a, LAMBDA v : <<Abs(v[1]), v[2]>>)

\* |x - y| is at most 2^(2 - MantBits) * scale: four roundings of a value
\* of size scale.
Within(x, y, scale) ==
    ~FLt(scale, FMul(FAbs(FSub(x, y)), <<1, MantBits - 2>>))

IsNumber(a) == a \in Int \X Int

IsVector(v) == Len(v) = 2 /\ IsNumber(v[1]) /\ IsNumber(v[2])

IsPowerOfTwo(a) == Abs(a[1]) = 1

\* C3: gravitational_force raises ValueError, and returns nothing, whenever
\* the distance it computes is strictly below epsilon, coincident positions
\* included; at a distance of epsilon or more it returns a force vector of
\* two numbers and does not raise.
C3_RaisesIffBelowEpsilon ==
    fn = "gravitational_force" =>
        Bind(Norm(VSub(args.r2, args.r1)), LAMBDA dist :
            /\ args.r1 = args.r2 => dist = Zero
            /\ FLt(dist, epsilon) => ret = RaiseForce("ValueError")
            /\ ~FLt(dist, epsilon) => ret.raised = "none" /\ IsVector(ret.force_vec))

\* A call at the threshold itself, which returns, and so tells < from <=.
C3_Witness ==
    /\ fn = "gravitational_force"
    /\ Norm(VSub(args.r2, args.r1)) = epsilon
    /\ ret.raised = "none"
    /\ ret.force_vec # Zero2

\* The magnitude G*m1*m2/r^2 as the source computes it from the distance.
ForceMagnitude(m1, m2, r) == FDiv(FMul(FMul(G, m1), m2), FMul(r, r))

C6_GArgumentScalesResult ==
    /\ fn = "compute_accelerations" /\ ret.raised = "none" =>
          ret.acc = ArrScale(compute_accelerations(args.positions, args.masses,
                                                     G).acc,
                               FDiv(args.G, G))
    /\ /\ fn = "euler_step" /\ ret.raised = "none"
       /\ \A i \in 1..Len(args.velocities) : args.velocities[i] = Zero2
       => ret.velocities = ArrScale(euler_step(args.positions, args.velocities,
                                               args.masses, args.dt, G).velocities,
                                    FDiv(args.G, G))

\* C7: euler_step evaluates the accelerations once, at the input positions;
\* the new velocity is velocity + a*dt and the new position is
\* position + new velocity * dt, component by component.
C7_EulerIsSemiImplicit ==
    fn = "euler_step" =>
        Bind(compute_accelerations(args.positions, args.masses, args.G), LAMBDA a :
            /\ ret.evals = 1
            /\ ret.raised = a.raised
            /\ a.raised = "none" =>
                  /\ Len(ret.positions) = Len(args.positions)
                  /\ Len(ret.velocities) = Len(args.positions)
                  /\ \A i \in 1..Len(args.positions) : \A c \in 1..2 :
                        /\ ret.velocities[i][c] =
                               FAdd(args.velocities[i][c],
                                    FMul(a.acc[i][c], args.dt))
                        /\ ret.positions[i][c] =
                               FAdd(args.positions[i][c],
                                    FMul(ret.velocities[i][c], args.dt)))

\* A step whose new position differs from the one the input velocity gives.
C7_Witness ==
    /\ fn = "euler_step"
    /\ ret.raised = "none"
    /\ ret.positions # ArrAdd(args.positions, ArrScale(args.velocities, args.dt))

\* C8 as stated: for one body both integrators return velocity unchanged and
\* position + velocity*dt, hence the same result.
C8_LoneBodySameResult ==
    fn \in {"euler_step", "rk4_step"} /\ Len(args.positions) = 1 =>
        /\ ret.raised = "none"
        /\ ret.velocities = args.velocities
        /\ ret.positions =
               <<VAdd(args.positions[1], VScale(args.velocities[1], args.dt))>>

\* C8: for one body the acceleration is zero; both integrators return the
\* velocity unchanged and leave a coordinate with zero velocity where it
\* was; euler_step returns position + velocity*dt, and rk4_step returns it
\* up to the rounding of (k + 2k + 2k + k)/6 with k = velocity*dt.
C8_LoneBodyLinearMotion ==
    /\ fn = "compute_accelerations" /\ Len(args.positions) = 1 =>
          ret = Return(<<Zero2>>)
    /\ fn \in {"euler_step", "rk4_step"} /\ Len(args.positions) = 1 =>
          Bind(VScale(args.velocities[1], args.dt), LAMBDA k :
          Bind(VAdd(args.positions[1], k), LAMBDA linear :
              /\ ret.raised = "none"
              /\ ret.velocities = args.velocities
              /\ fn = "euler_step" => ret.positions = <<linear>>
              /\ \A c \in 1..2 :
                    /\ args.velocities[1][c] = Zero =>
                          ret.positions[1][c] = args.positions[1][c]
                    /\ Within(ret.positions[1][c], linear[c],
                              FAdd(FAbs(k[c]), FAbs(linear[c])))))

\* An RK4 step of a lone body that lands next to position + velocity*dt.
C8_Witness ==
    /\ fn = "rk4_step"
    /\ Len(args.positions) = 1
    /\ ret.raised = "none"
    /\ ret.positions #
           <<VAdd(args.positions[1], VScale(args.velocities[1], args.dt))>>

\* C11: for two bodies of equal mass at a separation of at least epsilon,
\* compute_accelerations returns without raising, acc[0] is the exact
\* negation of acc[1] in each coordinate, the two have the same magnitude,
\* and each is the force computed from that body's own side of the pair
\* divided by its mass.
C11_TwoBodyAccelerationsOpposite ==
    /\ fn = "compute_accelerations"
    /\ Len(args.positions) = 2
    /\ args.masses[1] = args.masses[2]
    /\ ~FLt(Norm(VSub(args.positions[2], args.positions[1])), epsilon)
    => /\ ret.raised = "none"
       /\ Len(ret.acc) = 2
       /\ \A c \in 1..2 : ret.acc[1][c] = FNeg(ret.acc[2][c])
       /\ Norm(ret.acc[1]) = Norm(ret.acc[2])
       /\ ret.acc[1] = VDiv(gravitational_force(args.positions[1], args.positions[2],
                                                args.masses[1], args.masses[2]).force_vec,
                            args.masses[1])
       /\ ret.acc[2] = VDiv(gravitational_force(args.positions[2], args.positions[1],
                                                args.masses[2], args.masses[1]).force_vec,
                            args.masses[2])

\* An equal-mass pair off the axes whose accelerations are nonzero in both
\* coordinates.
C11_Witness ==
    /\ fn = "compute_accelerations"
    /\ Len(args.positions) = 2
    /\ args.masses[1] = args.masses[2]
    /\ ret.raised = "none"
    /\ ret.acc[1][1] # Zero /\ ret.acc[1][2] # Zero
    /\ ret.acc[1] # ret.acc[2]

(***************************************************************************)
(* Properties of a run of run_simulation (Spec).                           *)
(***************************************************************************)
\* The integrator the method argument names.
Selected == IF method = "euler" THEN "euler_step" ELSE "rk4_step"

\* The state after the integrator f is applied k times in succession, with
\* time step h, to the initial state of n bodies: each application starts
\* from the result of the one before.  A raising application ends the
\* sequence; evals counts the force evaluations made.
RECURSIVE Iterate(_, _, _, _)
Iterate(n, f, h, k) ==
    IF k = 0
    THEN Bind(get_planets(n), LAMBDA p :
             [raised |-> "none", positions |-> p.positions,
              velocities |-> p.velocities, masses |-> p.masses, evals |-> 0,
              applied |-> 0])
    ELSE Bind(Iterate(n, f, h, k - 1), LAMBDA s :
             IF s.raised # "none" THEN s
             ELSE Bind(IF f = "euler_step"
                       THEN euler_step(s.positions, s.velocities, s.masses, h, G)
                       ELSE rk4_step(s.positions, s.velocities, s.masses, h, G),
                       LAMBDA r :
                          [raised |-> r.raised, positions |-> r.positions,
                           velocities |-> r.velocities, masses |-> s.masses,
                           evals |-> s.evals + r.evals,
                           applied |-> s.applied + 1]))

\* C1: after a completed run there is one buffer per body, each of
\* steps + 1 entries; entry 0 is the body's initial position and entry k is
\* its position after the selected integrator was applied k times in
\* succession to the initial state.
C1_TrajectoryIsIteratedStep ==
    pc = "done" =>
        /\ Len(trajectories) = nplanets
        /\ Len(trajectories) = Len(get_planets(nplanets).positions)
        /\ calls = steps
        /\ Bind(Array([k \in 1..(steps + 1) |->
                          Iterate(nplanets, Selected, dt, k - 1)]), LAMBDA orbit :
               \A i \in 1..nplanets :
                  /\ Len(trajectories[i]) = steps + 1
                  /\ trajectories[i][1] = get_planets(nplanets).positions[i]
                  /\ \A k \in 0..steps :
                        /\ orbit[k + 1].raised = "none"
                        /\ trajectories[i][k + 1] = orbit[k + 1].positions[i])

\* A completed run of two steps in which a planet moved at both steps.
C1_Witness ==
    /\ pc = "done"
    /\ steps = 2
    /\ nplanets >= 2
    /\ trajectories[2][2] # trajectories[2][1]
    /\ trajectories[2][3] # trajectories[2][2]

\* C2: a run whose method is neither 'euler' nor 'rk4' ends with a
\* ValueError before the time loop: it never reaches the loop or the plots,
\* makes no integrator call and no force evaluation, and once it has ended
\* the exception that left it is the ValueError.
C2_UnknownMethodIsValueError ==
    method \notin {"euler", "rk4"} =>
        /\ pc \notin {"loop", "done"}
        /\ calls = 0 /\ evals = 0 /\ plots = <<>>
        /\ pc = "raised" => raised.type = "ValueError"

\* C4: a run in the time loop has completed every step it started; a run
\* that ended normally made exactly steps integrator calls, none of which
\* raised, and then the two plots; a run that a force evaluation ended did
\* so at the first evaluation that raises, with the ValueError, without
\* plotting, and does nothing more.
C4_SingularityAbortsRun ==
    /\ pc # "done" => plots = <<>>
    /\ pc \in {"loop", "done"} =>
          Bind(Iterate(nplanets, Selected, dt, step - 1), LAMBDA s :
              /\ s.raised = "none"
              /\ calls = step - 1
              /\ evals = s.evals)
    /\ pc = "done" =>
          /\ step = steps + 1
          /\ Len(plots) = 2
          /\ plots[1].fn = "plot_trajectories"
          /\ plots[2].fn = "plot_timeseries"
    /\ pc = "raised" /\ calls > 0 =>
          Bind(Iterate(nplanets, Selected, dt, step), LAMBDA s :
              /\ raised.type = "ValueError"
              /\ s.raised = "ValueError"
              /\ s.applied = step
              /\ calls = step
              /\ evals = s.evals
              /\ ~ENABLED Next)

\* A run that a force evaluation of its second RK4 step ended.
C4_Witness ==
    /\ pc = "raised"
    /\ raised.type = "ValueError"
    /\ step_func = "rk4_step"
    /\ calls = 2
    /\ steps >= 2

\* The mass-weighted sum of coordinate c of the first n recorded positions
\* at index k, and the sum of the first n masses.
RECURSIVE WeightedSum(_, _, _)
WeightedSum(k, c, n) ==
    IF n = 0 THEN Zero
    ELSE FAdd(WeightedSum(k, c, n - 1), FMul(masses[n], trajectories[n][k][c]))

RECURSIVE TotalMass(_)
TotalMass(n) == IF n = 0 THEN Zero ELSE FAdd(TotalMass(n - 1), masses[n])

\* C9: with tracking enabled a completed run leaves a centroid buffer of
\* steps + 1 entries, entry k being (sum_i m_i r_i(k)) / (sum_i m_i) over
\* the positions recorded at index k, and hands it to the time-series plot;
\* with tracking disabled there is never a centroid buffer, and the plot is
\* given None.
C9_CentroidIsWeightedMean ==
    /\ ~include_cog => cog_positions = None
    /\ pc = "done" =>
          /\ plots[2].cog_positions = cog_positions
          /\ include_cog =>
                /\ Len(cog_positions) = steps + 1
                /\ \A k \in 1..(steps + 1) : \A c \in 1..2 :
                      cog_positions[k][c] =
                          FDiv(WeightedSum(k, c, nplanets), TotalMass(nplanets))

\* A completed run with tracking whose last centroid is off the origin.
C9_Witness ==
    /\ pc = "done"
    /\ include_cog
    /\ steps >= 1
    /\ nplanets >= 2
    /\ cog_positions[steps + 1] # Zero2

\* C10: a run asked for more bodies than the catalog holds gets past its
\* storage section without an exception, with one trajectory buffer per
\* body that get_planets returned.
C10_TruncatedRunProceeds ==
    nplanets > Len(PLANETS) /\ pc \notin {"initialize", "storage"} =>
        /\ raised.type # "IndexError"
        /\ Len(trajectories) = Len(positions)

====
